---- MODULE Spec2Model ----
(***************************************************************************)
(* Model of samr.mesh: a Mesh owning an ordered list of MeshLevels, each   *)
(* owning MeshBlocks, and the MeshVariables registered on them.            *)
(*                                                                         *)
(* Python objects that are compared or keyed by identity (MeshVariable,    *)
(* numpy arrays) are modelled by their identity: a positive integer.       *)
(* Exceptions are modelled by the name of the Python exception class:      *)
(* ValueError is the spec's InvalidArgument, RuntimeError its InvalidState.*)
(***************************************************************************)
EXTENDS Integers, Sequences, FiniteSets, TLC

\* ------------------------------------------------------------------------
\* Bounds of the model

\* most MeshVariable objects ever appended to mesh.variables
MaxVars == 2

\* most MeshLevels held by the mesh at one time
MaxLevels == 2

\* most data arrays of the mesh that hold values other than 0 at one time
MaxWritten == 1

\* most components of the lower and upper arguments of Box, and most
\* dimensions of the Boxes passed to compute_bounding_box
MaxDim == 2

\* most Boxes in the list passed to compute_bounding_box
MaxBoxes == 2

\* ------------------------------------------------------------------------
\* Small helpers

Max(a, b) == IF a >= b THEN a ELSE b

Range(s) == {s[i] : i \in 1..Len(s)}

\* Python exception classes raised by the code, and "ok" for a normal return
OK == "ok"
ValueError == "ValueError"
RuntimeError == "RuntimeError"
TypeError == "TypeError"

\* ------------------------------------------------------------------------
\* numpy element-wise arithmetic on 1-d integer arrays, with broadcasting
\* of a length-1 operand

Broadcastable(a, b) == Len(a) = Len(b) \/ Len(a) = 1 \/ Len(b) = 1

At(a, i) == IF Len(a) = 1 THEN a[1] ELSE a[i]

ArraySub(a, b) == [i \in 1..Max(Len(a), Len(b)) |-> At(a, i) - At(b, i)]

ArrayAdd(a, b) == [i \in 1..Max(Len(a), Len(b)) |-> At(a, i) + At(b, i)]

\* ------------------------------------------------------------------------
\* Box

\* the checks of Box.__init__ on two integer arrays
BoxArgsValid(lower, upper) ==
    /\ Len(lower) > 0
    /\ Len(upper) > 0
    /\ Len(lower) = Len(upper)
    /\ \A i \in 1..Len(lower) : upper[i] >= lower[i]

Box(lower, upper) == [lower |-> lower, upper |-> upper]

BoxNumDimensions(box) == Len(box.lower)

BoxShape(box) == [i \in 1..Len(box.lower) |-> box.upper[i] - box.lower[i] + 1]

NoBox == Box(<<>>, <<>>)

\* ------------------------------------------------------------------------
\* MeshVariable

Locations == {"NODE", "CELL", "FACE"}

Precisions == {"DOUBLE", "SINGLE"}

\* Precision.value: the numpy dtype of the enumeration member
PrecisionValue(precision) == IF precision = "DOUBLE" THEN "float64" ELSE "float32"

\* a max_stencil_width argument: a scalar, or an array of integers
ScalarArg(n) == [is_array |-> FALSE, values |-> <<n>>]

ArrayArg(s) == [is_array |-> TRUE, values |-> s]

NoVariable == [mesh |-> "none", location |-> "NODE", max_stencil_width |-> <<>>,
               depth |-> 0, dtype |-> "float64"]

\* MeshVariable.__init__ on a valid location and precision, an integer depth
\* and an integer scalar or integer array max_stencil_width: the only check
\* that can fail is the one on an empty array.  The sign of
\* max_stencil_width, its length and the sign of depth are not checked.
MeshVariable(mesh_num_dimensions, location, max_stencil_width, depth, precision) ==
    IF max_stencil_width.is_array /\ Len(max_stencil_width.values) = 0
    THEN [err |-> ValueError, obj |-> NoVariable]
    ELSE [err |-> OK,
          obj |-> [mesh |-> "mesh",
                   location |-> location,
                   max_stencil_width |->
                       IF max_stencil_width.is_array
                       THEN max_stencil_width.values
                       ELSE [i \in 1..mesh_num_dimensions |->
                                max_stencil_width.values[1]],
                   depth |-> depth,
                   dtype |-> PrecisionValue(precision)]]

\* variable == other, had MeshVariable an __eq__ that compares the fields
VariableEqByFields(h, v, w) == h[v] = h[w]

\* variable == other for two MeshVariables, given by identity: the class
\* defines no __eq__, so Python compares the objects' identities.
\* h is the heap, mapping the identity of a MeshVariable to its fields.
VariableEq(h, v, w) == v = w

\* variable in variables, were the members compared field by field
ContainsByFields(h, vs, v) == \E i \in 1..Len(vs) : h[vs[i]] = h[v]

\* variable in variables (tuple.__contains__)
Contains(h, vs, v) == \E i \in 1..Len(vs) : VariableEq(h, vs[i], v)

\* Box(lower, upper): the Box constructed, or the exception raised
NewBox(lower, upper) ==
    IF BoxArgsValid(lower, upper)
    THEN [err |-> OK, box |-> Box(lower, upper)]
    ELSE [err |-> ValueError, box |-> NoBox]

\* MeshVariable.box(block, with_halo=True)
VariableBoxWithHalo(var, block) ==
    IF ~Broadcastable(block.box.lower, var.max_stencil_width)
    THEN [err |-> ValueError, box |-> NoBox]
    ELSE NewBox(ArraySub(block.box.lower, var.max_stencil_width),
                ArrayAdd(block.box.upper, var.max_stencil_width))

\* ------------------------------------------------------------------------
\* MeshBlock

\* Geometry(num_dimensions): a region of space without coordinates
Geometry(num_dimensions) == [num_dimensions |-> num_dimensions]

\* a numpy array, or a list of numpy arrays, given by the shape(s), the dtype
\* and whether every element still has the value 0 that numpy.zeros gave it
NoArray == [kind |-> "none", shapes |-> <<>>, dtype |-> "none", zero |-> TRUE]

\* the check and the construction of MeshBlock.__init__
MeshBlockArgsValid(box, geometry) ==
    BoxNumDimensions(box) = geometry.num_dimensions

\* 'Initialize property and attribute values' of MeshBlock.__init__
MeshBlockStoring(box, geometry, stores_vectors_contiguously) ==
    [box |-> box,
     geometry |-> geometry,
     stores_vectors_contiguously |-> stores_vectors_contiguously,
     variables |-> <<>>,
     data |-> <<>>]

\* MeshBlock(box, geometry): stores_vectors_contiguously is True by default
MeshBlock(box, geometry) == MeshBlockStoring(box, geometry, TRUE)

\* the dimension of vector-valued MeshVariables always added last
WithDepthLast(block, var, data_shape) ==
    IF var.depth > 1
    THEN data_shape \o <<var.depth>>
    ELSE data_shape

\* 'Add dimension for vector-valued MeshVariables' of _create_data
WithDepth(block, var, data_shape) ==
    IF var.depth > 1
    THEN IF block.stores_vectors_contiguously
         THEN data_shape \o <<var.depth>>
         ELSE <<var.depth>> \o data_shape
    ELSE data_shape

\* _create_data allocating for a FACE variable, along every axis, the
\* array of a NODE variable
ZerosOnNodes(block, var, box_shape) ==
    IF var.location = "FACE"
    THEN [kind |-> "list",
          shapes |-> [i \in 1..BoxNumDimensions(block.box) |->
                         WithDepth(block, var,
                             [j \in 1..Len(box_shape) |-> box_shape[j] + 1])],
          dtype |-> var.dtype,
          zero |-> TRUE]
    ELSE [kind |-> "ndarray",
          shapes |-> <<WithDepth(block, var,
                          [i \in 1..Len(box_shape) |->
                              box_shape[i]
                                  + (IF var.location = "NODE" THEN 1 ELSE 0)])>>,
          dtype |-> var.dtype,
          zero |-> TRUE]

\* the zero-filled array (CELL, NODE) or list of arrays (FACE) that
\* _create_data allocates for a box with halo of shape box_shape, given by
\* its shape(s) and dtype
Zeros(block, var, box_shape) ==
    IF var.location = "CELL"
    THEN [kind |-> "ndarray",
          shapes |-> <<WithDepth(block, var, box_shape)>>,
          dtype |-> var.dtype,
          zero |-> TRUE]
    ELSE IF var.location = "NODE"
    THEN [kind |-> "ndarray",
          shapes |-> <<WithDepth(block, var,
                          [i \in 1..Len(box_shape) |-> box_shape[i] + 1])>>,
          dtype |-> var.dtype,
          zero |-> TRUE]
    ELSE [kind |-> "list",
          shapes |-> [i \in 1..BoxNumDimensions(block.box) |->
                         WithDepth(block, var,
                             [j \in 1..Len(box_shape) |->
                                 IF j = i THEN box_shape[j] + 1
                                          ELSE box_shape[j]])],
          dtype |-> var.dtype,
          zero |-> TRUE]

\* _create_data from 'Compute shape of box for MeshVariable with halo' on,
\* where halo is the outcome of variable.box(self, with_halo=True)
CreateDataFor(block, var, halo) ==
    IF halo.err # OK
    THEN [err |-> halo.err, array |-> NoArray]
    ELSE [err |-> OK, array |-> Zeros(block, var, BoxShape(halo.box))]

\* MeshBlock._create_data for the variable v of the heap h
CreateData(h, block, v) ==
    IF ~Contains(h, block.variables, v)
    THEN [err |-> ValueError, array |-> NoArray]
    ELSE CreateDataFor(block, h[v], VariableBoxWithHalo(h[v], block))

\* 'self._data[id(variable)] = self._create_data(variable)', where created
\* is the outcome of _create_data: each entry of block.data, keyed by
\* id(variable), holds the array allocated for it by its own call
StoreData(block, v, created) ==
    IF created.err # OK
    THEN [block |-> block, err |-> created.err]
    ELSE [block |-> [block EXCEPT !.data = (v :> created.array) @@ @],
          err |-> OK]

\* MeshBlock.add_variable after 'self._variables.append(variable)'
ConstructData(h, appended, v) ==
    StoreData(appended, v, CreateData(h, appended, v))

\* MeshBlock.add_variable without its exit for a variable that has already
\* been added
BlockAddVariableAlways(h, block, v) ==
    ConstructData(h, [block EXCEPT !.variables = Append(@, v)], v)

\* MeshBlock.add_variable: the block afterwards and the exception raised
\* (or OK)
BlockAddVariable(h, block, v) ==
    IF Contains(h, block.variables, v)
    THEN [block |-> block, err |-> OK]
    ELSE ConstructData(h, [block EXCEPT !.variables = Append(@, v)], v)

\* MeshBlock.data(variable) for a MeshVariable
BlockData(block, v) ==
    IF v \notin DOMAIN block.data
    THEN [err |-> ValueError, array |-> NoArray]
    ELSE [err |-> OK, array |-> block.data[v]]

\* 'Adjust shape for location' and 'Adjust shape for depth' of data_shape:
\* nothing is done for FACE, and the depth is always added last
AdjustedShape(var, shape) ==
    IF var.location = "FACE"
    THEN shape
    ELSE IF var.depth > 1
    THEN [i \in 1..Len(shape) |->
             shape[i] + (IF var.location = "NODE" THEN 1 ELSE 0)]
         \o <<var.depth>>
    ELSE [i \in 1..Len(shape) |->
             shape[i] + (IF var.location = "NODE" THEN 1 ELSE 0)]

\* 'shape = self.box(block, with_halo=True).shape' and what follows of
\* data_shape, where halo is the outcome of self.box(block, with_halo=True)
DataShapeFor(var, halo) ==
    IF halo.err # OK
    THEN [err |-> halo.err, shape |-> <<>>]
    ELSE [err |-> OK, shape |-> AdjustedShape(var, BoxShape(halo.box))]

\* MeshVariable.data_shape(block) of the variable var
DataShape(var, block) == DataShapeFor(var, VariableBoxWithHalo(var, block))

\* ------------------------------------------------------------------------
\* CartesianGeometry.  A coordinate is a float64, modelled by the rational
\* number num / den in lowest terms, den > 0.

RECURSIVE GCD(_, _)
\* greatest common divisor of two naturals
GCD(a, b) == IF b = 0 THEN a ELSE GCD(b, a % b)

\* the rational n / d in lowest terms, d # 0
Rational(n, d) ==
    [num |-> (IF d < 0 THEN 0 - n ELSE n)
                 \div GCD(IF n < 0 THEN 0 - n ELSE n,
                          IF d < 0 THEN 0 - d ELSE d),
     den |-> (IF d < 0 THEN 0 - d ELSE d)
                 \div GCD(IF n < 0 THEN 0 - n ELSE n,
                          IF d < 0 THEN 0 - d ELSE d)]

\* numpy.array(x, dtype='float64') on a list of integers
AsFloat64(x) == [i \in 1..Len(x) |-> Rational(x[i], 1)]

\* x + y, x - y, x * k and x / k on a float x, a float y and an integer k
FloatAdd(x, y) == Rational(x.num * y.den + y.num * x.den, x.den * y.den)

FloatSub(x, y) == Rational(x.num * y.den - y.num * x.den, x.den * y.den)

FloatTimes(x, k) == Rational(x.num * k, x.den)

FloatOver(x, k) == Rational(x.num, x.den * k)

\* numpy.greater(x, y) on floats
FloatGreater(x, y) == x.num * y.den > y.num * x.den

\* 'Initialize property and attribute values' of CartesianGeometry.__init__
CartesianGeometryOf(x_lower, x_upper) ==
    [num_dimensions |-> Len(x_lower), x_lower |-> x_lower, x_upper |-> x_upper]

\* CartesianGeometry(x_lower, x_upper) on two arrays of floats: the geometry
\* constructed, or the exception raised
CartesianGeometry(x_lower, x_upper) ==
    IF \/ Len(x_lower) # Len(x_upper)
       \/ ~\A i \in 1..Len(x_lower) : FloatGreater(x_upper[i], x_lower[i])
    THEN [err |-> ValueError, geometry |-> Geometry(0)]
    ELSE [err |-> OK, geometry |-> CartesianGeometryOf(x_lower, x_upper)]

\* CartesianGeometry.shape
GeometryShape(geometry) ==
    [i \in 1..geometry.num_dimensions |->
        FloatSub(geometry.x_upper[i], geometry.x_lower[i])]

\* length of the element-wise combination of arrays of lengths m and n
\* (0: numpy cannot broadcast them and raises ValueError)
BroadcastLen(m, n) ==
    IF m = 0 \/ n = 0 THEN 0
    ELSE IF m = n \/ m = 1 \/ n = 1 THEN Max(m, n)
    ELSE 0

\* x + dx * corner along axis i: the corner taken from the origin of the
\* index space
CornerFromOrigin(x, shape, reference_shape, corner, reference_corner, i) ==
    FloatAdd(At(x, i),
             FloatTimes(FloatOver(At(shape, i), At(reference_shape, i)),
                        At(corner, i)))

\* x + dx * (corner - reference_corner) along axis i, the arrays broadcast
ShiftedCorner(x, shape, reference_shape, corner, reference_corner, i) ==
    FloatAdd(At(x, i),
             FloatTimes(FloatOver(At(shape, i), At(reference_shape, i)),
                        At(corner, i) - At(reference_corner, i)))

\* CartesianGeometry.compute_dx(box): self.shape / box.shape, for a box of
\* the dimensionality of the geometry
ComputeDx(geometry, box) ==
    [i \in 1..geometry.num_dimensions |->
        FloatOver(GeometryShape(geometry)[i], BoxShape(box)[i])]

\* CartesianGeometry.compute_geometry(reference_box, box): x_lower and
\* x_upper are self.x_lower + (self.shape / reference_box.shape) *
\* (box.lower - reference_box.lower) and self.x_upper + (self.shape /
\* reference_box.shape) * (box.upper - reference_box.upper), element-wise
ComputeGeometry(geometry, reference_box, box) ==
    LET dx == BroadcastLen(geometry.num_dimensions,
                           BoxNumDimensions(reference_box))
        offset == BroadcastLen(BoxNumDimensions(box),
                               BoxNumDimensions(reference_box))
        x == BroadcastLen(geometry.num_dimensions, BroadcastLen(dx, offset))
    IN  IF x = 0
        THEN [err |-> ValueError, geometry |-> Geometry(0)]
        ELSE CartesianGeometry(
                 [i \in 1..x |->
                     ShiftedCorner(geometry.x_lower, GeometryShape(geometry),
                                   BoxShape(reference_box), box.lower,
                                   reference_box.lower, i)],
                 [i \in 1..x |->
                     ShiftedCorner(geometry.x_upper, GeometryShape(geometry),
                                   BoxShape(reference_box), box.upper,
                                   reference_box.upper, i)])

\* CartesianGeometry.__eq__ on two CartesianGeometry objects
GeometryEq(geometry, other) ==
    /\ geometry.num_dimensions = other.num_dimensions
    /\ geometry.x_lower = other.x_lower
    /\ geometry.x_upper = other.x_upper

\* ------------------------------------------------------------------------
\* MeshLevel

NoLevel == [level_number |-> -1, variables |-> <<>>, blocks |-> <<>>]

\* 'Generate blocks' of _generate_blocks, where geometries[i] is the outcome
\* of computing the geometry of boxes[i]
BlocksOf(boxes, geometries) ==
    IF \E i \in 1..Len(boxes) :
           \/ geometries[i].err # OK
           \/ ~MeshBlockArgsValid(boxes[i], geometries[i].geometry)
    THEN [err |-> ValueError, blocks |-> <<>>]
    ELSE [err |-> OK,
          blocks |-> [i \in 1..Len(boxes) |->
                         MeshBlock(boxes[i], geometries[i].geometry)]]

\* _generate_blocks giving every block the geometry of the first box
GenerateBlocksOneGeometry(boxes, first_box_geometry) ==
    IF boxes = <<>>
    THEN [err |-> ValueError, blocks |-> <<>>]
    ELSE BlocksOf(boxes,
                  [i \in 1..Len(boxes) |->
                      [err |-> OK, geometry |-> first_box_geometry]])

\* MeshLevel._generate_blocks on a list of Boxes
GenerateBlocks(boxes, first_box_geometry) ==
    IF boxes = <<>>
    THEN [err |-> ValueError, blocks |-> <<>>]
    ELSE BlocksOf(boxes,
                  [i \in 1..Len(boxes) |->
                      IF i = 1
                      THEN [err |-> OK, geometry |-> first_box_geometry]
                      ELSE ComputeGeometry(first_box_geometry, boxes[1],
                                           boxes[i])])

\* 'Initialize property and attribute values' of MeshLevel.__init__, where
\* generated is the outcome of _generate_blocks
LevelOf(level_number, generated) ==
    IF generated.err # OK
    THEN [err |-> generated.err, level |-> NoLevel]
    ELSE [err |-> OK,
          level |-> [level_number |-> level_number,
                     variables |-> <<>>,
                     blocks |-> generated.blocks]]

\* MeshLevel.__init__ on an integer level_number >= 0, a list of Boxes and a
\* Geometry
MeshLevel(level_number, boxes, first_box_geometry) ==
    LevelOf(level_number, GenerateBlocks(boxes, first_box_geometry))

\* 'for block in self.blocks: block.add_variable(variable)' from block i on:
\* the loop ends at the first exception.  added is the outcome of
\* add_variable on block i.
RECURSIVE AddToBlocks(_, _, _, _)
RECURSIVE AfterBlock(_, _, _, _, _)
AfterBlock(h, blocks, v, i, added) ==
    IF added.err # OK
    THEN [blocks |-> [blocks EXCEPT ![i] = added.block], err |-> added.err]
    ELSE AddToBlocks(h, [blocks EXCEPT ![i] = added.block], v, i + 1)

AddToBlocks(h, blocks, v, i) ==
    IF i > Len(blocks)
    THEN [blocks |-> blocks, err |-> OK]
    ELSE AfterBlock(h, blocks, v, i, BlockAddVariable(h, blocks[i], v))

\* the level with the blocks that the loop over its blocks left
WithBlocks(level, fanned) ==
    [level |-> [level EXCEPT !.blocks = fanned.blocks], err |-> fanned.err]

\* 'Add variable to all MeshBlocks' of MeshLevel.add_variable
AddToAllBlocks(h, level, v) ==
    WithBlocks(level, AddToBlocks(h, level.blocks, v, 1))

\* MeshLevel.add_variable
LevelAddVariable(h, level, v) ==
    AddToAllBlocks(h,
                   IF Contains(h, level.variables, v)
                   THEN level
                   ELSE [level EXCEPT !.variables = Append(@, v)],
                   v)

\* ------------------------------------------------------------------------
\* Box.compute_bounding_box on a non-empty list of Boxes of one dimension

MinOf(S) == CHOOSE m \in S : \A n \in S : m <= n

MaxOf(S) == CHOOSE m \in S : \A n \in S : m >= n

\* the bounding box with the corners of the first and of the last Box
ComputeBoundingBoxEnds(boxes) ==
    Box(boxes[1].lower, boxes[Len(boxes)].upper)

ComputeBoundingBox(boxes) ==
    Box([i \in 1..BoxNumDimensions(boxes[1]) |->
            MinOf({boxes[b].lower[i] : b \in 1..Len(boxes)})],
        [i \in 1..BoxNumDimensions(boxes[1]) |->
            MaxOf({boxes[b].upper[i] : b \in 1..Len(boxes)})])

\* ------------------------------------------------------------------------
\* Arguments of the calls

\* a number passed in level_numbers: num / den, a Python int or float
IntArg(n) == [num |-> n, den |-> 1, is_float |-> FALSE]

FloatArg(n, d) == [num |-> n, den |-> d, is_float |-> TRUE]

\* numpy.mod(x, 1) == 0
IsIntegral(x) == x.num % x.den = 0

\* the level_numbers argument: None, a scalar or a list
NoneArg == [given |-> FALSE, is_array |-> FALSE, values |-> <<>>]

ScalarLevel(x) == [given |-> TRUE, is_array |-> FALSE, values |-> <<x>>]

ListLevels(s) == [given |-> TRUE, is_array |-> TRUE, values |-> s]

LevelNumberValues ==
    {IntArg(-1), IntArg(0), IntArg(1), IntArg(2), FloatArg(1, 2),
     FloatArg(0, 1)}

LevelNumberArgs ==
    {NoneArg, ScalarLevel(IntArg(0)), ScalarLevel(IntArg(2)),
     ListLevels(<<>>)}
    \cup {ListLevels(<<x>>) : x \in LevelNumberValues}
    \cup {ListLevels(<<IntArg(1), IntArg(0)>>),
          ListLevels(<<IntArg(0), IntArg(0)>>),
          ListLevels(<<IntArg(0), IntArg(2)>>)}

\* location, max_stencil_width, depth and precision of create_variable
VariableArgs ==
    {<<"NODE", ScalarArg(0), 1, "DOUBLE">>,
     <<"FACE", ScalarArg(1), 2, "SINGLE">>,
     <<"CELL", ScalarArg(-1), 1, "DOUBLE">>,
     <<"NODE", ArrayArg(<<>>), 1, "DOUBLE">>}

\* domains of the Mesh
DomainArgs ==
    {<<Box(<<0>>, <<3>>)>>,
     <<Box(<<0, 0>>, <<1, 1>>), Box(<<2, 0>>, <<3, 1>>)>>}

\* boxes of add_level
BoxesArgs ==
    {<<>>,
     <<Box(<<0>>, <<1>>)>>,
     <<Box(<<0, 0>>, <<3, 3>>), Box(<<4, 0>>, <<7, 3>>)>>}

\* geometries of the first box of add_level
GeometryArgs ==
    {CartesianGeometryOf(AsFloat64(<<0>>), AsFloat64(<<1>>)),
     CartesianGeometryOf(AsFloat64(<<-1, 0>>), AsFloat64(<<1, 3>>))}

\* ------------------------------------------------------------------------
\* State of a Mesh and of its MeshVariables

VARIABLES
    heap,          \* the MeshVariable objects: identity -> fields
    domain,        \* Mesh._domain
    bounding_box,  \* Mesh._bounding_box
    geometry,      \* Mesh._geometry
    levels,        \* Mesh._levels
    variables,     \* Mesh._variables: identities of MeshVariables
    last           \* the last call: its arguments, exception and result

vars == <<heap, domain, bounding_box, geometry, levels, variables, last>>

\* Mesh.num_levels
num_levels == Len(levels)

\* Mesh.num_dimensions
num_dimensions == geometry.num_dimensions

\* the flag, were it stored when the Mesh is constructed, with its one level
is_single_level_stored == levels[1].level_number = 0

\* Mesh.is_single_level
is_single_level == num_levels = 1

\* Mesh.is_single_block
is_single_block == is_single_level /\ Len(domain) = 1

\* a call of a method of the Mesh: the exception it raised (or OK) with its
\* message, the MeshVariable that create_variable constructed (or 0) and the
\* MeshLevel that remove_level returned (or NoLevel)
Call(op, outcome, message, variable, result) ==
    [op |-> op, outcome |-> outcome, message |-> message,
     variable |-> variable, result |-> result]

\* Mesh.__init__ on a Box list and the Geometry of its first box, through
\* its call of add_level on a mesh without variables
Init ==
    \E boxes \in DomainArgs :
        LET first_box_geometry ==
                CartesianGeometryOf(
                    AsFloat64([i \in 1..BoxNumDimensions(boxes[1]) |-> 0]),
                    AsFloat64([i \in 1..BoxNumDimensions(boxes[1]) |-> 1]))
            level == MeshLevel(0, boxes, first_box_geometry)
        IN  /\ level.err = OK
            /\ domain = boxes
            /\ bounding_box = ComputeBoundingBox(boxes)
            /\ geometry = ComputeGeometry(first_box_geometry, boxes[1],
                                          ComputeBoundingBox(boxes)).geometry
            /\ levels = <<level.level>>
            /\ variables = <<>>
            /\ heap = <<>>
            /\ last = Call("__init__", OK, "", 0, NoLevel)

\* ------------------------------------------------------------------------
\* Mesh.create_variable

\* the checks on level_numbers without the one on integer values
CheckLevelNumbersNoIntegers(level_numbers) ==
    IF ~level_numbers.given THEN ""
    ELSE IF level_numbers.is_array /\ level_numbers.values = <<>>
    THEN "'level_numbers' should not be empty"
    ELSE IF \E x \in Range(level_numbers.values) : x.num < 0
    THEN "'level_numbers' should not contain negative values"
    ELSE IF \E x \in Range(level_numbers.values) : x.num >= num_levels * x.den
    THEN "'level_numbers' should only contain values less than number of levels in the Mesh"
    ELSE ""

\* the checks on level_numbers: the message of the ValueError raised, or ""
CheckLevelNumbers(level_numbers) ==
    IF ~level_numbers.given THEN ""
    ELSE IF level_numbers.is_array /\ level_numbers.values = <<>>
    THEN "'level_numbers' should not be empty"
    ELSE IF \E x \in Range(level_numbers.values) : ~IsIntegral(x)
    THEN "'level_numbers' should contain only integer values"
    ELSE IF \E x \in Range(level_numbers.values) : x.num < 0
    THEN "'level_numbers' should not contain negative values"
    ELSE IF \E x \in Range(level_numbers.values) : x.num >= num_levels * x.den
    THEN "'level_numbers' should only contain values less than number of levels in the Mesh"
    ELSE ""

\* 'for level in levels: level.add_variable(variable)' from the k-th named
\* level on, where numbers are the positions in Mesh.levels of the levels
\* named: the loop ends at the first exception.  added is the outcome of
\* add_variable on the k-th named level.
RECURSIVE AddToLevels(_, _, _, _, _)
RECURSIVE AfterLevel(_, _, _, _, _, _)
AfterLevel(h, lvls, numbers, v, k, added) ==
    IF added.err # OK
    THEN [levels |-> [lvls EXCEPT ![numbers[k] + 1] = added.level],
          err |-> added.err]
    ELSE AddToLevels(h, [lvls EXCEPT ![numbers[k] + 1] = added.level],
                     numbers, v, k + 1)

AddToLevels(h, lvls, numbers, v, k) ==
    IF k > Len(numbers)
    THEN [levels |-> lvls, err |-> OK]
    ELSE AfterLevel(h, lvls, numbers, v, k,
                    LevelAddVariable(h, lvls[numbers[k] + 1], v))

\* 'Convert level numbers to levels', were level_numbers ignored
NamedLevelsAll(level_numbers) == [k \in 1..num_levels |-> k - 1]

\* 'Convert level numbers to levels': the positions in Mesh.levels of the
\* levels that the variable is added to, in the order of the additions
NamedLevels(level_numbers) ==
    IF level_numbers.given
    THEN [k \in 1..Len(level_numbers.values) |->
             level_numbers.values[k].num \div level_numbers.values[k].den]
    ELSE [k \in 1..num_levels |-> k - 1]

\* create_variable from 'Add variable to Mesh' on, where var is the
\* MeshVariable constructed and v its identity
AddVariableToMesh(var, v, level_numbers) ==
    /\ Len(variables) < MaxVars
    /\ heap' = (v :> var) @@ heap
    /\ variables' = Append(variables, v)
    /\ IF \E x \in Range(level_numbers.values) : x.is_float
       THEN \* self.levels[level_num] with a float index
            /\ levels' = levels
            /\ last' = Call("create_variable", TypeError,
                            "tuple indices must be integers", v, NoLevel)
       ELSE \E added \in {AddToLevels(heap', levels,
                                      NamedLevels(level_numbers), v, 1)} :
                /\ levels' = added.levels
                /\ last' = Call("create_variable", added.err, "", v, NoLevel)
    /\ UNCHANGED <<domain, bounding_box, geometry>>

\* create_variable from 'Create MeshVariable' on, where made is the outcome
\* of the constructor
AfterMeshVariable(made, level_numbers) ==
    IF made.err # OK
    THEN /\ last' = Call("create_variable", made.err,
                         "When 'max_stencil_width' is an array, it should not be empty",
                         0, NoLevel)
         /\ UNCHANGED <<heap, domain, bounding_box, geometry, levels,
                        variables>>
    ELSE AddVariableToMesh(made.obj, Len(variables) + 1, level_numbers)

\* create_variable from 'Create new MeshVariable and add it to Mesh' on,
\* where message is the outcome of the checks on level_numbers
AfterCheck(message, location, max_stencil_width, depth, precision, level_numbers) ==
    IF message # ""
    THEN /\ last' = Call("create_variable", ValueError, message, 0, NoLevel)
         /\ UNCHANGED <<heap, domain, bounding_box, geometry, levels,
                        variables>>
    ELSE AfterMeshVariable(MeshVariable(num_dimensions, location,
                                        max_stencil_width, depth, precision),
                           level_numbers)

CreateVariable(location, max_stencil_width, depth, precision, level_numbers) ==
    AfterCheck(CheckLevelNumbers(level_numbers), location, max_stencil_width,
               depth, precision, level_numbers)

create_variable ==
    \E args \in VariableArgs, level_numbers \in LevelNumberArgs :
        CreateVariable(args[1], args[2], args[3], args[4], level_numbers)

\* ------------------------------------------------------------------------
\* Mesh.add_level

\* 'for variable in self.variables: level.add_variable(variable)' from the
\* k-th variable on: the loop ends at the first exception.  added is the
\* outcome of add_variable for the k-th variable.
RECURSIVE AddVariables(_, _, _, _)
RECURSIVE AfterVariable(_, _, _, _)
AfterVariable(h, vs, k, added) ==
    IF added.err # OK
    THEN added
    ELSE AddVariables(h, added.level, vs, k + 1)

AddVariables(h, level, vs, k) ==
    IF k > Len(vs)
    THEN [level |-> level, err |-> OK]
    ELSE AfterVariable(h, vs, k, LevelAddVariable(h, level, vs[k]))

\* a level number counted from one
NewLevelNumberFromOne == num_levels + 1

\* the level number that add_level gives the new MeshLevel
NewLevelNumber == num_levels

\* the variables of the coarsest level
CoarsestLevelVariables == levels[1].variables

\* the variables that add_level adds to the new MeshLevel
ExistingVariables == variables

\* add_level growing the bounding box of the mesh to the boxes of the new
\* level
AfterMeshLevelBounding(made) ==
    IF made.err # OK
    THEN /\ last' = Call("add_level", made.err, "", 0, NoLevel)
         /\ UNCHANGED <<heap, domain, bounding_box, geometry, levels,
                        variables>>
    ELSE /\ num_levels < MaxLevels
         /\ \E added \in {AddVariables(heap, made.level, ExistingVariables,
                                       1)} :
                /\ levels' = Append(levels, added.level)
                /\ last' = Call("add_level", added.err, "", 0, NoLevel)
         /\ bounding_box' =
                IF BoxNumDimensions(made.level.blocks[1].box)
                       = BoxNumDimensions(bounding_box)
                THEN ComputeBoundingBox(
                         <<bounding_box>>
                         \o [i \in 1..Len(made.level.blocks) |->
                                made.level.blocks[i].box])
                ELSE bounding_box
         /\ UNCHANGED <<heap, domain, geometry, variables>>

\* add_level from 'Add new MeshLevel to Mesh' on, where made is the outcome
\* of the MeshLevel constructor
AfterMeshLevel(made) ==
    IF made.err # OK
    THEN /\ last' = Call("add_level", made.err, "", 0, NoLevel)
         /\ UNCHANGED <<heap, domain, bounding_box, geometry, levels,
                        variables>>
    ELSE /\ num_levels < MaxLevels
         /\ \E added \in {AddVariables(heap, made.level, ExistingVariables,
                                       1)} :
                /\ levels' = Append(levels, added.level)
                /\ last' = Call("add_level", added.err, "", 0, NoLevel)
         /\ UNCHANGED <<heap, domain, bounding_box, geometry, variables>>

AddLevel(boxes, first_box_geometry) ==
    AfterMeshLevel(MeshLevel(NewLevelNumber, boxes, first_box_geometry))

add_level ==
    \E boxes \in BoxesArgs, first_box_geometry \in GeometryArgs :
        AddLevel(boxes, first_box_geometry)

\* ------------------------------------------------------------------------
\* Mesh.remove_level

\* a check that guards nothing
NoLevelLeft == num_levels = 0

\* 'Mesh contains at least two levels' fails
OnlyCoarsestLevel == num_levels = 1

\* remove_level, were the level deleted before the check
remove_level_delete_first ==
    /\ levels' = SubSeq(levels, 1, num_levels - 1)
    /\ IF Len(levels') = 0
       THEN last' = Call("remove_level", RuntimeError,
                         "The coarsest MeshLevel cannot be removed from Mesh",
                         0, NoLevel)
       ELSE last' = Call("remove_level", OK, "", 0, levels[num_levels])
    /\ UNCHANGED <<heap, domain, bounding_box, geometry, variables>>

\* remove_level, were the level at the front of the list deleted
remove_level_front ==
    /\ IF OnlyCoarsestLevel
       THEN /\ last' = Call("remove_level", RuntimeError,
                            "The coarsest MeshLevel cannot be removed from Mesh",
                            0, NoLevel)
            /\ UNCHANGED levels
       ELSE /\ levels' = Tail(levels)
            /\ last' = Call("remove_level", OK, "", 0, levels[1])
    /\ UNCHANGED <<heap, domain, bounding_box, geometry, variables>>

remove_level ==
    /\ IF OnlyCoarsestLevel
       THEN /\ last' = Call("remove_level", RuntimeError,
                            "The coarsest MeshLevel cannot be removed from Mesh",
                            0, NoLevel)
            /\ UNCHANGED levels
       ELSE /\ levels' = SubSeq(levels, 1, num_levels - 1)
            /\ last' = Call("remove_level", OK, "", 0, levels[num_levels])
    /\ UNCHANGED <<heap, domain, bounding_box, geometry, variables>>

\* ------------------------------------------------------------------------
\* Mesh.data

\* Mesh.data without its check 'Mesh is single-block'
MeshDataUnchecked(v) ==
    IF ~Contains(heap, variables, v)
    THEN [err |-> ValueError, array |-> NoArray]
    ELSE BlockData(levels[1].blocks[1], v)

\* Mesh.data(variable) for a MeshVariable: the array returned, through
\* variable.data(self.levels[0].blocks[0]), or the exception raised
MeshData(v) ==
    IF ~is_single_block
    THEN [err |-> RuntimeError, array |-> NoArray]
    ELSE IF ~Contains(heap, variables, v)
    THEN [err |-> ValueError, array |-> NoArray]
    ELSE BlockData(levels[1].blocks[1], v)

\* ------------------------------------------------------------------------
\* MeshVariable.data, MeshVariable.box and MeshVariable.geometry of the
\* MeshVariable v of the heap, with a MeshBlock and without one (block=None)

\* the check, were it made on the number of levels alone
WithoutBlockInvalidMultiLevel == ~is_single_level

\* 'elif not self.mesh.is_single_block' of the three methods: the check made
\* when block is None
WithoutBlockInvalid == ~is_single_block

\* variable.data(block): a MeshBlock is true in 'if block'
VariableDataOn(v, block) == BlockData(block, v)

\* variable.data()
VariableData(v) ==
    IF WithoutBlockInvalid
    THEN [err |-> ValueError, array |-> NoArray]
    ELSE MeshData(v)

\* variable.box(block, with_halo)
VariableBoxOn(v, block, with_halo) ==
    IF with_halo
    THEN VariableBoxWithHalo(heap[v], block)
    ELSE [err |-> OK, box |-> block.box]

\* variable.box(with_halo=with_halo): mesh.domain is the Box of the domain
\* when the domain has one box
VariableBox(v, with_halo) ==
    IF WithoutBlockInvalid
    THEN [err |-> ValueError, box |-> NoBox]
    ELSE IF with_halo
    THEN IF ~Broadcastable(domain[1].lower, heap[v].max_stencil_width)
         THEN [err |-> ValueError, box |-> NoBox]
         ELSE NewBox(ArraySub(domain[1].lower, heap[v].max_stencil_width),
                     ArrayAdd(domain[1].upper, heap[v].max_stencil_width))
    ELSE [err |-> OK, box |-> domain[1]]

\* variable.geometry(block)
VariableGeometryOn(v, block) == [err |-> OK, geometry |-> block.geometry]

\* variable.geometry()
VariableGeometry(v) ==
    IF WithoutBlockInvalid
    THEN [err |-> ValueError, geometry |-> Geometry(0)]
    ELSE [err |-> OK, geometry |-> geometry]

\* ------------------------------------------------------------------------
\* Calls on the MeshLevels and MeshBlocks that mesh.levels and level.blocks
\* hand out, with the MeshVariables of mesh.variables

\* level.add_variable(variable) on the level at position l of mesh.levels
LevelAddVariableCall(l, v) ==
    /\ \E added \in {LevelAddVariable(heap, levels[l], v)} :
           /\ levels' = [levels EXCEPT ![l] = added.level]
           /\ last' = Call("MeshLevel.add_variable", added.err, "", v,
                           NoLevel)
    /\ UNCHANGED <<heap, domain, bounding_box, geometry, variables>>

level_add_variable ==
    \E l \in 1..num_levels, v \in Range(variables) :
        LevelAddVariableCall(l, v)

\* block.add_variable(variable) on the block at position b of the level at
\* position l
BlockAddVariableCall(l, b, v) ==
    /\ \E added \in {BlockAddVariable(heap, levels[l].blocks[b], v)} :
           /\ levels' = [levels EXCEPT ![l].blocks[b] = added.block]
           /\ last' = Call("MeshBlock.add_variable", added.err, "", v,
                           NoLevel)
    /\ UNCHANGED <<heap, domain, bounding_box, geometry, variables>>

\* the calls made are those with a variable of the level that the block
\* belongs to
block_add_variable ==
    \E l \in 1..num_levels, v \in Range(variables) :
        \E b \in 1..Len(levels[l].blocks) :
            /\ Contains(heap, levels[l].variables, v)
            /\ BlockAddVariableCall(l, b, v)

\* the data arrays of the mesh that hold values other than 0
Written ==
    UNION {UNION {{<<l, b, v>> : v \in {w \in DOMAIN levels[l].blocks[b].data :
                                          ~levels[l].blocks[b].data[w].zero}} :
                  b \in 1..Len(levels[l].blocks)} :
           l \in 1..num_levels}

\* an assignment of values other than 0 to the elements of the array that
\* block.data(variable) returns: data() returns the array that the block
\* holds, not a copy of it
WriteData(l, b, v) ==
    /\ v \in DOMAIN levels[l].blocks[b].data
    /\ levels[l].blocks[b].data[v].zero
    /\ Cardinality(Written) < MaxWritten
    /\ levels' = [levels EXCEPT ![l].blocks[b].data[v].zero = FALSE]
    /\ last' = Call("MeshBlock.data", OK, "", v, NoLevel)
    /\ UNCHANGED <<heap, domain, bounding_box, geometry, variables>>

write_data ==
    \E l \in 1..num_levels, v \in Range(variables) :
        \E b \in 1..Len(levels[l].blocks) :
            WriteData(l, b, v)

\* ------------------------------------------------------------------------

Next == create_variable \/ add_level \/ remove_level

Spec == Init /\ [][Next]_vars

\* the calls on the MeshLevel and the MeshBlocks of a single-level Mesh
LevelNext ==
    \/ create_variable
    \/ level_add_variable
    \/ block_add_variable
    \/ write_data

LevelSpec == Init /\ [][LevelNext]_vars

\* ------------------------------------------------------------------------
\* Box.__init__ and Box.compute_bounding_box, called by a program that has
\* constructed no Mesh.  The numbers of the lower and upper arguments are
\* Python ints or floats, num / den.

\* utils.contains_only_integers on a list of numbers
ContainsOnlyIntegers(array) ==
    /\ array # <<>>
    /\ \A i \in 1..Len(array) : IsIntegral(array[i])

\* numpy.greater(x, y)
Greater(x, y) == x.num * y.den > y.num * x.den

\* numpy.greater_equal(x, y)
GreaterEqual(x, y) == x.num * y.den >= y.num * x.den

\* numpy.array(array, dtype='int64') on a list of integral numbers
AsInt64(array) == [i \in 1..Len(array) |-> array[i].num \div array[i].den]

BoxResult(outcome, message, box) ==
    [err |-> outcome, message |-> message, box |-> box]

\* Box.__init__ on two lists of numbers: the Box constructed, or the
\* ValueError raised with its message
BoxInit(lower, upper) ==
    IF lower = <<>>
    THEN BoxResult(ValueError, "'lower' should not be empty", NoBox)
    ELSE IF ~ContainsOnlyIntegers(lower)
    THEN BoxResult(ValueError, "'lower' should contain only integer values",
                   NoBox)
    ELSE IF upper = <<>>
    THEN BoxResult(ValueError, "'upper' should not be empty", NoBox)
    ELSE IF ~ContainsOnlyIntegers(upper)
    THEN BoxResult(ValueError, "'upper' should contain only integer values",
                   NoBox)
    ELSE IF Len(lower) # Len(upper)
    THEN BoxResult(ValueError,
                   "'lower' and 'upper' should have the same number of components",
                   NoBox)
    ELSE IF ~\A i \in 1..Len(lower) : GreaterEqual(upper[i], lower[i])
    THEN BoxResult(ValueError,
                   "'upper' should be greater than or equal to 'lower' along all axes",
                   NoBox)
    ELSE BoxResult(OK, "", Box(AsInt64(lower), AsInt64(upper)))

\* numbers passed in lower and upper
CoordinateArgs ==
    {IntArg(-1), IntArg(0), IntArg(1), FloatArg(1, 1), FloatArg(1, 2)}

\* the lower and upper arguments of Box
CornerArgs ==
    UNION {[1..n -> CoordinateArgs] : n \in 0..MaxDim}

\* components of the corners of the Boxes passed to compute_bounding_box
Coordinates == {-1, 1}

\* the Boxes of d dimensions with corners of these components
BoxValues(d) ==
    {box \in {Box(lower, upper) : lower \in [1..d -> Coordinates],
                                  upper \in [1..d -> Coordinates]} :
        BoxArgsValid(box.lower, box.upper)}

\* the boxes argument of compute_bounding_box: a Box, or a list of Boxes of
\* one dimensionality
BoxListArgs ==
    UNION {{[is_array |-> FALSE, values |-> <<box>>] : box \in BoxValues(d)}
           \cup UNION {{[is_array |-> TRUE, values |-> boxes] :
                           boxes \in [1..n -> BoxValues(d)]} :
                       n \in 1..MaxBoxes} :
           d \in 1..MaxDim}

\* ------------------------------------------------------------------------
\* Box.refine_boxes and Box.coarsen_boxes.  The factor is a number or a list
\* of numbers: [is_array, values], the values Python ints or floats.

\* the message of the ValueError raised by the checks of the boxes and
\* factor arguments, "" when they pass
CheckBoxesAndFactor(boxes, factor) ==
    IF \E k \in 2..Len(boxes) :
           BoxNumDimensions(boxes[k]) # BoxNumDimensions(boxes[1])
    THEN "All Box objects in 'boxes' should have the same 'num_dimensions' value"
    ELSE IF ~factor.is_array
    THEN IF ~IsIntegral(factor.values[1])
         THEN "When 'factor' is a scalar, it should be an integer"
         ELSE ""
    ELSE IF factor.values = <<>>
    THEN "When 'factor' is an array, it should not be empty"
    ELSE IF ~ContainsOnlyIntegers(factor.values)
    THEN "When 'factor' is an array, it should contain only integer values"
    ELSE IF Len(factor.values) # BoxNumDimensions(boxes[1])
    THEN "When 'factor' is an array, its length should be equal to the dimensionality of the Box items in 'boxes'"
    ELSE ""

\* factor * numpy.ones(num_dimensions, dtype='int')
FactorArray(factor, d) ==
    [i \in 1..d |-> At(AsInt64(factor.values), i)]

\* a // b of numpy on integers, rounding towards zero
TruncatingDivide(a, b) ==
    IF b = 0 THEN 0
    ELSE IF (a < 0) = (b < 0) THEN a \div b ELSE 0 - ((0 - a) \div b)

\* a // b of numpy on integers: the floor of a / b, and 0 when b is 0
FloorDivide(a, b) ==
    IF b = 0 THEN 0 ELSE a \div b

\* Box(box.lower * factor, (box.upper + 1) * factor - 1)
RefineBox(box, f) ==
    NewBox([i \in 1..Len(box.lower) |-> box.lower[i] * f[i]],
           [i \in 1..Len(box.upper) |-> (box.upper[i] + 1) * f[i] - 1])

\* Box(box.lower // factor, box.upper // factor)
CoarsenBox(box, f) ==
    NewBox([i \in 1..Len(box.lower) |-> FloorDivide(box.lower[i], f[i])],
           [i \in 1..Len(box.upper) |-> FloorDivide(box.upper[i], f[i])])

\* the list of the Boxes made, or the ValueError of the first Box that
\* could not be constructed
BoxesResult(message, made) ==
    IF message # ""
    THEN [err |-> ValueError, message |-> message, boxes |-> <<>>]
    ELSE IF \E k \in 1..Len(made) : made[k].err # OK
    THEN [err |-> ValueError,
          message |-> "'upper' should be greater than or equal to 'lower' along all axes",
          boxes |-> <<>>]
    ELSE [err |-> OK, message |-> "",
          boxes |-> [k \in 1..Len(made) |-> made[k].box]]

\* Box.refine_boxes(boxes, factor) on the list boxes
RefineBoxes(boxes, factor) ==
    BoxesResult(CheckBoxesAndFactor(boxes, factor),
                [k \in 1..Len(boxes) |->
                    RefineBox(boxes[k],
                              FactorArray(factor, BoxNumDimensions(boxes[1])))])

\* Box.coarsen_boxes(boxes, factor) on the list boxes
CoarsenBoxes(boxes, factor) ==
    BoxesResult(CheckBoxesAndFactor(boxes, factor),
                [k \in 1..Len(boxes) |->
                    CoarsenBox(boxes[k],
                               FactorArray(factor, BoxNumDimensions(boxes[1])))])

\* index ranges, lower to upper, of the Boxes refined and coarsened along
\* an axis
IndexRanges == {<<-2, -1>>, <<-1, 1>>, <<1, 1>>}

\* the Boxes of d dimensions with these index ranges
RefinableBoxes(d) ==
    {Box([i \in 1..d |-> r[i][1]], [i \in 1..d |-> r[i][2]]) :
        r \in [1..d -> IndexRanges]}

\* the boxes argument of refine_boxes and coarsen_boxes: a Box, or a list
\* of Boxes of one dimensionality
RefinableArgs ==
    UNION {{[is_array |-> FALSE, values |-> <<box>>] :
               box \in RefinableBoxes(d)}
           \cup UNION {{[is_array |-> TRUE, values |-> boxes] :
                           boxes \in [1..n -> RefinableBoxes(d)]} :
                       n \in 1..MaxBoxes} :
           d \in 1..MaxDim}

\* numbers passed as factor
FactorValues == {IntArg(-1), IntArg(0), IntArg(2), FloatArg(1, 2)}

\* the factor argument of refine_boxes and coarsen_boxes
FactorArgs ==
    {ScalarArg(x) : x \in FactorValues}
    \cup UNION {{ArrayArg(s) : s \in [1..n -> FactorValues]} : n \in 0..MaxDim}

\* coordinate ranges, x_lower to x_upper, of the geometries along an axis
CoordinateRanges == {<<0, 1>>, <<-1, 2>>}

\* the CartesianGeometry objects of d dimensions with these ranges
GeometryValues(d) ==
    {CartesianGeometry(AsFloat64([i \in 1..d |-> r[i][1]]),
                       AsFloat64([i \in 1..d |-> r[i][2]])).geometry :
        r \in [1..d -> CoordinateRanges]}

\* the MeshBlocks of d dimensions a program constructs itself, with either
\* value of stores_vectors_contiguously
BlockValues(d) ==
    {MeshBlockStoring(box,
                      CartesianGeometryOf(AsFloat64([i \in 1..d |-> 0]),
                                          AsFloat64([i \in 1..d |-> 1])),
                      contiguously) :
        box \in RefinableBoxes(d), contiguously \in BOOLEAN}

\* the max_stencil_width arguments of the variables of a mesh of d
\* dimensions
StencilArgs(d) ==
    {ScalarArg(n) : n \in {-1, 0, 1}}
    \cup {ArrayArg(w) : w \in [1..d -> {0, 1}]}

\* the depths of the variables: scalar-valued and vector-valued
Depths == {1, 3}

\* the MeshVariables of a mesh of d dimensions
VariableValues(d) ==
    {MeshVariable(d, location, max_stencil_width, depth, precision).obj :
        location \in Locations, max_stencil_width \in StencilArgs(d),
        depth \in Depths, precision \in Precisions}

\* a program that has constructed no Mesh and is about to call Box,
\* compute_bounding_box, refine_boxes, coarsen_boxes, compute_geometry,
\* MeshLevel or, on a MeshBlock it has constructed, add_variable with
\* arguments of its choice
NoMesh ==
    /\ heap = <<>>
    /\ domain = <<>>
    /\ bounding_box = NoBox
    /\ geometry = Geometry(0)
    /\ levels = <<>>
    /\ variables = <<>>
    /\ \/ \E lower \in CornerArgs, upper \in CornerArgs :
              last = [op |-> "call", name |-> "Box", lower |-> lower,
                      upper |-> upper]
       \/ \E boxes \in BoxListArgs :
              last = [op |-> "call", name |-> "compute_bounding_box",
                      boxes |-> boxes]
       \/ \E name \in {"refine_boxes", "coarsen_boxes"},
             boxes \in RefinableArgs, factor \in FactorArgs :
              last = [op |-> "call", name |-> name, boxes |-> boxes,
                      factor |-> factor]
       \/ \E d \in 1..MaxDim :
          \E g \in GeometryValues(d), r \in RefinableBoxes(d),
             b \in RefinableBoxes(d) :
              last = [op |-> "call", name |-> "compute_geometry",
                      geometry |-> g, reference_box |-> r, box |-> b]
       \/ \E n \in 0..(MaxLevels - 1), boxes \in RefinableArgs :
          \E g \in GeometryValues(BoxNumDimensions(boxes.values[1])) :
              /\ boxes.is_array
              /\ last = [op |-> "call", name |-> "MeshLevel",
                         level_number |-> n, boxes |-> boxes.values,
                         first_box_geometry |-> g]
       \/ \E d \in 1..MaxDim :
          \E b \in BlockValues(d), var \in VariableValues(d) :
              last = [op |-> "call", name |-> "add_variable",
                      block |-> b, variable |-> var]

\* Box(lower, upper)
box_init ==
    /\ last.op = "call"
    /\ last.name = "Box"
    /\ \E made \in {BoxInit(last.lower, last.upper)} :
           last' = [op |-> "Box", lower |-> last.lower, upper |-> last.upper,
                    outcome |-> made.err, message |-> made.message,
                    result |-> made.box]
    /\ UNCHANGED <<heap, domain, bounding_box, geometry, levels, variables>>

\* Box.compute_bounding_box(boxes): 'ensure that boxes is list-like' makes
\* the list [boxes] of a Box
compute_bounding_box ==
    /\ last.op = "call"
    /\ last.name = "compute_bounding_box"
    /\ last' = [op |-> "compute_bounding_box", boxes |-> last.boxes,
                outcome |-> OK,
                result |-> ComputeBoundingBox(last.boxes.values)]
    /\ UNCHANGED <<heap, domain, bounding_box, geometry, levels, variables>>

\* Box.refine_boxes(boxes, factor): a Box is refined as the list [boxes]
refine_boxes ==
    /\ last.op = "call"
    /\ last.name = "refine_boxes"
    /\ \E refined \in {RefineBoxes(last.boxes.values, last.factor)} :
           last' = [op |-> "refine_boxes", boxes |-> last.boxes,
                    factor |-> last.factor, outcome |-> refined.err,
                    message |-> refined.message, result |-> refined.boxes]
    /\ UNCHANGED <<heap, domain, bounding_box, geometry, levels, variables>>

\* Box.coarsen_boxes(boxes, factor): of the boxes of the call, or of the
\* list that refine_boxes has just returned, with the same factor
coarsen_boxes ==
    /\ \/ last.op = "call" /\ last.name = "coarsen_boxes"
       \/ last.op = "refine_boxes" /\ last.outcome = OK
    /\ \E given \in {IF last.op = "call" THEN last.boxes
                     ELSE ArrayArg(last.result)} :
       \E coarsened \in {CoarsenBoxes(given.values, last.factor)} :
           last' = [op |-> "coarsen_boxes", boxes |-> given,
                    factor |-> last.factor,
                    refined_from |-> IF last.op = "call" THEN <<>>
                                     ELSE last.boxes.values,
                    outcome |-> coarsened.err, message |-> coarsened.message,
                    result |-> coarsened.boxes]
    /\ UNCHANGED <<heap, domain, bounding_box, geometry, levels, variables>>

\* geometry.compute_geometry(reference_box, box)
compute_geometry ==
    /\ last.op = "call"
    /\ last.name = "compute_geometry"
    /\ \E computed \in {ComputeGeometry(last.geometry, last.reference_box,
                                         last.box)} :
           last' = [op |-> "compute_geometry", geometry |-> last.geometry,
                    reference_box |-> last.reference_box, box |-> last.box,
                    outcome |-> computed.err, result |-> computed.geometry]
    /\ UNCHANGED <<heap, domain, bounding_box, geometry, levels, variables>>

\* MeshLevel(level_number, boxes, first_box_geometry)
mesh_level ==
    /\ last.op = "call"
    /\ last.name = "MeshLevel"
    /\ \E made \in {MeshLevel(last.level_number, last.boxes,
                               last.first_box_geometry)} :
           last' = [op |-> "MeshLevel", level_number |-> last.level_number,
                    boxes |-> last.boxes,
                    first_box_geometry |-> last.first_box_geometry,
                    outcome |-> made.err, result |-> made.level]
    /\ UNCHANGED <<heap, domain, bounding_box, geometry, levels, variables>>

\* block.add_variable(variable) on a MeshBlock without variables; the
\* variable is the object 1 of the heap <<variable>>
add_variable ==
    /\ last.op = "call"
    /\ last.name = "add_variable"
    /\ \E added \in {BlockAddVariable(<<last.variable>>, last.block, 1)} :
           last' = [op |-> "add_variable", block |-> last.block,
                    variable |-> last.variable, outcome |-> added.err,
                    result |-> added.block]
    /\ UNCHANGED <<heap, domain, bounding_box, geometry, levels, variables>>

BoxNext ==
    \/ box_init
    \/ compute_bounding_box
    \/ refine_boxes
    \/ coarsen_boxes
    \/ compute_geometry
    \/ mesh_level
    \/ add_variable

BoxSpec == NoMesh /\ [][BoxNext]_vars

\* ------------------------------------------------------------------------
\* Accessors of the Mesh: the value returned, or the exception raised

\* Mesh.domain: the Box itself when the mesh has one domain box, the tuple
\* of the domain boxes otherwise
MeshDomain ==
    IF Len(domain) = 1
    THEN [is_tuple |-> FALSE, value |-> domain[1]]
    ELSE [is_tuple |-> TRUE, value |-> domain]

\* Mesh.blocks
blocks ==
    IF ~is_single_level
    THEN [err |-> RuntimeError, value |-> <<>>]
    ELSE [err |-> OK, value |-> levels[1].blocks]

\* Mesh.num_blocks
num_blocks ==
    IF ~is_single_level
    THEN [err |-> RuntimeError, value |-> <<>>]
    ELSE [err |-> OK, value |-> Len(levels[1].blocks)]

\* Mesh.block
block ==
    IF ~is_single_block
    THEN [err |-> RuntimeError, value |-> <<>>]
    ELSE [err |-> OK, value |-> levels[1].blocks[1]]

\* ------------------------------------------------------------------------
\* Properties of the level hierarchy

\* the variable v is registered on the level: it is in the level's variables
\* and in the variables of each of its blocks, each of which holds a data
\* entry for it
RegisteredOn(level, v) ==
    /\ v \in Range(level.variables)
    /\ \A b \in 1..Len(level.blocks) :
           /\ v \in Range(level.blocks[b].variables)
           /\ v \in DOMAIN level.blocks[b].data
           /\ level.blocks[b].data[v].kind \in {"ndarray", "list"}

\* the variable v is unknown to the level and to each of its blocks
AbsentFrom(level, v) ==
    /\ v \notin Range(level.variables)
    /\ \A b \in 1..Len(level.blocks) :
           /\ v \notin Range(level.blocks[b].variables)
           /\ v \notin DOMAIN level.blocks[b].data

\* C1: a freshly constructed Mesh has exactly one level; every call leaves
\* at least one level; a successful add_level moves the number of levels
\* from N to N+1 whatever N; remove_level moves it from N to N-1 when N > 1
\* and leaves it alone, raising RuntimeError, when N = 1.
C1_LevelCount ==
    /\ num_levels = 1
    /\ [][/\ num_levels' >= 1
          /\ (last'.op = "add_level" /\ last'.outcome = OK)
                 => num_levels' = num_levels + 1
          /\ last'.op = "remove_level"
                 => IF num_levels > 1
                    THEN last'.outcome = OK /\ num_levels' = num_levels - 1
                    ELSE last'.outcome = RuntimeError
                         /\ num_levels' = num_levels]_vars

\* add_level has succeeded on a mesh that had a level removed or a variable
\* created, and a second level is in place
C1_Witness ==
    /\ last.op = "add_level"
    /\ last.outcome = OK
    /\ num_levels = 2
    /\ Len(variables) > 0

\* C2: the level at index i of mesh.levels has level_number i, so the level
\* numbers are 0..num_levels-1 without gaps or duplicates.
C2_LevelNumbers ==
    \A i \in 1..num_levels : levels[i].level_number = i - 1

\* a level above the coarsest is in place
C2_Witness ==
    /\ num_levels >= 2
    /\ levels[num_levels].level_number = num_levels - 1
    /\ last.op \in {"add_level", "create_variable"}

\* C3: remove_level on a Mesh with exactly one level raises RuntimeError
\* (InvalidState) with the message 'The coarsest MeshLevel cannot be removed
\* from Mesh' and leaves the levels, their blocks and the variables as they
\* were.
C3_RemoveCoarsest ==
    [][(last'.op = "remove_level" /\ num_levels = 1)
           => /\ last'.outcome = RuntimeError
              /\ last'.message =
                     "The coarsest MeshLevel cannot be removed from Mesh"
              /\ last'.result = NoLevel
              /\ UNCHANGED <<heap, domain, bounding_box, geometry, levels,
                             variables>>]_vars

\* remove_level has failed on a single-level mesh that holds a variable
C3_Witness ==
    /\ last.op = "remove_level"
    /\ last.outcome = RuntimeError
    /\ num_levels = 1
    /\ \E v \in Range(variables) : RegisteredOn(levels[1], v)

\* C4: remove_level on a Mesh with N >= 2 levels returns the MeshLevel whose
\* level_number is N-1, and mesh.levels afterwards is the list before
\* without its last element.
C4_RemoveLast ==
    [][(last'.op = "remove_level" /\ num_levels >= 2)
           => /\ last'.outcome = OK
              /\ last'.result.level_number = num_levels - 1
              /\ levels' \o <<last'.result>> = levels]_vars

\* remove_level has returned a level that held a variable
C4_Witness ==
    /\ last.op = "remove_level"
    /\ last.outcome = OK
    /\ last.result.level_number = num_levels
    /\ last.result.variables # <<>>

\* C5: after a successful add_level, every variable in mesh.variables is
\* registered, with a data entry, on every block of the new level.
C5_FanOut ==
    (last.op = "add_level" /\ last.outcome = OK)
        => \A v \in Range(variables) : RegisteredOn(levels[num_levels], v)

\* add_level has succeeded on a mesh with a variable that the coarsest level
\* does not have
C5_Witness ==
    /\ last.op = "add_level"
    /\ last.outcome = OK
    /\ \E v \in Range(variables) :
           /\ AbsentFrom(levels[1], v)
           /\ RegisteredOn(levels[num_levels], v)

\* C11: add_variable on a MeshLevel with a variable that is registered on
\* it, and add_variable on a MeshBlock with a variable that is in its
\* variables, raise nothing and leave the level and the block as they were:
\* the variables lists keep their length and order, and the block keeps the
\* data array that it held for the variable, with the values written to it.
C11_Idempotent ==
    [][/\ \A l \in 1..num_levels, v \in Range(variables) :
              (/\ LevelAddVariableCall(l, v)
               /\ RegisteredOn(levels[l], v))
                  => /\ last'.outcome = OK
                     /\ levels'[l].variables = levels[l].variables
                     /\ \A b \in 1..Len(levels[l].blocks) :
                            /\ levels'[l].blocks[b].variables =
                                   levels[l].blocks[b].variables
                            /\ levels'[l].blocks[b].data[v] =
                                   levels[l].blocks[b].data[v]
                     /\ levels' = levels
       /\ \A l \in 1..num_levels, v \in Range(variables) :
              \A b \in 1..Len(levels[l].blocks) :
                  (/\ BlockAddVariableCall(l, b, v)
                   /\ v \in Range(levels[l].blocks[b].variables))
                      => /\ last'.outcome = OK
                         /\ levels'[l].blocks[b].variables =
                                levels[l].blocks[b].variables
                         /\ levels'[l].blocks[b].data =
                                levels[l].blocks[b].data
                         /\ levels' = levels]_vars

\* add_variable has returned on a level of two blocks, one of which holds an
\* array for the variable with values other than 0: the array was there,
\* and the variable on the level, before the call
C11_Witness ==
    /\ last.op = "MeshLevel.add_variable"
    /\ last.outcome = OK
    /\ Len(levels[1].blocks) = 2
    /\ RegisteredOn(levels[1], last.variable)
    /\ \E b \in 1..Len(levels[1].blocks) :
           ~levels[1].blocks[b].data[last.variable].zero

\* C16: every block of every level has the num_dimensions of the mesh, that
\* of the domain boxes and of the geometry of the mesh.
C16_Dimensions ==
    \A l \in 1..num_levels : \A b \in 1..Len(levels[l].blocks) :
        /\ BoxNumDimensions(levels[l].blocks[b].box) = num_dimensions
        /\ BoxNumDimensions(levels[l].blocks[b].box) =
               BoxNumDimensions(domain[1])
        /\ levels[l].blocks[b].geometry.num_dimensions = num_dimensions

\* ------------------------------------------------------------------------
\* Properties of Box

\* C19: Box(lower, upper) raises ValueError (InvalidArgument) when lower or
\* upper is empty, when they differ in length, when a component is not
\* integral or when upper[i] < lower[i] for some i; in every other case,
\* upper[i] = lower[i] included, it returns the Box with these corners.
C19_BoxConstructor ==
    last.op = "Box"
        => IF \/ Len(last.lower) = 0
              \/ Len(last.upper) = 0
              \/ Len(last.lower) # Len(last.upper)
              \/ \E x \in Range(last.lower) \cup Range(last.upper) :
                     x.num % x.den # 0
              \/ \E i \in 1..Len(last.lower) :
                     last.upper[i].num * last.lower[i].den
                         < last.lower[i].num * last.upper[i].den
           THEN /\ last.outcome = ValueError
                /\ last.result = NoBox
           ELSE /\ last.outcome = OK
                /\ Len(last.result.lower) = Len(last.lower)
                /\ Len(last.result.upper) = Len(last.upper)
                /\ \A i \in 1..Len(last.lower) :
                       /\ last.result.lower[i] * last.lower[i].den =
                              last.lower[i].num
                       /\ last.result.upper[i] * last.upper[i].den =
                              last.upper[i].num

\* Box has returned a Box of two dimensions that is one cell wide along an
\* axis
C19_Witness ==
    /\ last.op = "Box"
    /\ last.outcome = OK
    /\ Len(last.lower) = 2
    /\ last.result.lower[1] = last.result.upper[1]
    /\ last.result.lower[2] < last.result.upper[2]

\* C20: compute_bounding_box of a Box, or of a non-empty list of Boxes of
\* one dimensionality, returns the Box whose lower is the component-wise
\* minimum of the lowers and whose upper is the component-wise maximum of
\* the uppers: it contains every Box given, and every Box that does contains
\* it; for a Box b, given alone or as [b], it is equal to b.
C20_BoundingBox ==
    last.op = "compute_bounding_box"
        => LET boxes == last.boxes.values
               d == BoxNumDimensions(boxes[1])
           IN  /\ last.outcome = OK
               /\ BoxNumDimensions(last.result) = d
               /\ Len(last.result.upper) = d
               /\ \A i \in 1..d :
                      /\ \A k \in 1..Len(boxes) :
                             /\ last.result.lower[i] <= boxes[k].lower[i]
                             /\ last.result.upper[i] >= boxes[k].upper[i]
                      /\ \E k \in 1..Len(boxes) :
                             last.result.lower[i] = boxes[k].lower[i]
                      /\ \E k \in 1..Len(boxes) :
                             last.result.upper[i] = boxes[k].upper[i]
               /\ \A c \in BoxValues(d) :
                      (\A k \in 1..Len(boxes) : \A i \in 1..d :
                           /\ c.lower[i] <= boxes[k].lower[i]
                           /\ c.upper[i] >= boxes[k].upper[i])
                          => \A i \in 1..d :
                                 /\ c.lower[i] <= last.result.lower[i]
                                 /\ c.upper[i] >= last.result.upper[i]
               /\ Len(boxes) = 1 => last.result = boxes[1]

\* compute_bounding_box has returned, for two Boxes of two dimensions, a Box
\* that is neither of them
C20_Witness ==
    /\ last.op = "compute_bounding_box"
    /\ last.boxes.is_array
    /\ Len(last.boxes.values) = 2
    /\ BoxNumDimensions(last.result) = 2
    /\ last.result # last.boxes.values[1]
    /\ last.result # last.boxes.values[2]

\* the factor is an integer, or a list of d integers
IsIntegerFactor(factor, d) ==
    /\ \A x \in Range(factor.values) : x.num % x.den = 0
    /\ IF factor.is_array THEN Len(factor.values) = d ELSE TRUE

\* the component of an integer factor along axis i
FactorAlong(factor, i) ==
    IF factor.is_array
    THEN factor.values[i].num \div factor.values[i].den
    ELSE factor.values[1].num \div factor.values[1].den

C22_SameBox ==
    (last.op = "compute_geometry" /\ last.box = last.reference_box)
        => /\ last.outcome = OK
           /\ GeometryEq(last.result, last.geometry)
           /\ last.result.x_lower = last.geometry.x_lower
           /\ last.result.x_upper = last.geometry.x_upper

\* compute_geometry has returned the geometry of a Box of two dimensions
\* that does not start at the origin, computed with that Box as reference
C22_Witness ==
    /\ last.op = "compute_geometry"
    /\ last.box = last.reference_box
    /\ BoxNumDimensions(last.box) = 2
    /\ last.box.lower[1] < 0
    /\ last.box.upper[2] > last.box.lower[2]
    /\ last.outcome = OK
    /\ last.result.x_lower[1] = Rational(-1, 1)
    /\ last.result.x_upper[1] = Rational(2, 1)

\* p - x = (y - x) * k / n on the floats p, x, y and the integers k, n
ShiftedBy(p, x, y, k, n) ==
    n * (p.num * x.den * y.den - x.num * p.den * y.den)
        = k * (y.num * x.den * p.den - x.num * y.den * p.den)

\* (q - p) / m = (y - x) / n on the floats p, q, x, y and the integers m, n
SameSpacing(p, q, m, x, y, n) ==
    n * (q.num * p.den - p.num * q.den) * x.den * y.den
        = m * (y.num * x.den - x.num * y.den) * p.den * q.den

\* C24: a MeshLevel built from the boxes b0..bk and the geometry g of b0
\* holds k+1 blocks, block i on box bi; the geometry of block 0 is g and
\* that of block i has x_lower = g.x_lower + dx * (bi.lower - b0.lower) and
\* x_upper = g.x_upper + dx * (bi.upper - b0.upper), dx = g.shape / b0.shape;
\* the grid spacing, shape of the geometry over shape of the box, is dx on
\* every block.
C24_LevelBlocks ==
    last.op = "MeshLevel"
        => LET g == last.first_box_geometry
               made == last.result.blocks
           IN  /\ last.outcome = OK
               /\ last.result.level_number = last.level_number
               /\ Len(made) = Len(last.boxes)
               /\ made[1].geometry = g
               /\ \A i \in 1..Len(made) :
                      /\ made[i].box = last.boxes[i]
                      /\ made[i].geometry.num_dimensions = g.num_dimensions
                      /\ \A a \in 1..g.num_dimensions :
                             /\ ShiftedBy(made[i].geometry.x_lower[a],
                                          g.x_lower[a], g.x_upper[a],
                                          last.boxes[i].lower[a]
                                              - last.boxes[1].lower[a],
                                          BoxShape(last.boxes[1])[a])
                             /\ ShiftedBy(made[i].geometry.x_upper[a],
                                          g.x_upper[a],
                                          FloatAdd(g.x_upper[a],
                                                   GeometryShape(g)[a]),
                                          last.boxes[i].upper[a]
                                              - last.boxes[1].upper[a],
                                          BoxShape(last.boxes[1])[a])
                             /\ SameSpacing(made[i].geometry.x_lower[a],
                                            made[i].geometry.x_upper[a],
                                            BoxShape(last.boxes[i])[a],
                                            g.x_lower[a], g.x_upper[a],
                                            BoxShape(last.boxes[1])[a])
                             /\ ComputeDx(made[i].geometry, made[i].box)[a]
                                    = ComputeDx(g, last.boxes[1])[a]

\* MeshLevel has returned a level of two blocks of two dimensions whose
\* boxes differ in shape, the second block with a geometry other than g
C24_Witness ==
    /\ last.op = "MeshLevel"
    /\ last.outcome = OK
    /\ Len(last.result.blocks) = 2
    /\ last.first_box_geometry.num_dimensions = 2
    /\ BoxShape(last.boxes[1]) # BoxShape(last.boxes[2])
    /\ last.result.blocks[2].geometry.x_lower[1].den > 1
    /\ last.result.blocks[2].geometry # last.first_box_geometry

\* ------------------------------------------------------------------------
\* Properties of the arrays of a block

\* the extent along axis i of the box of the block with the halo of the
\* variable
HaloExtent(blk, var, i) ==
    BoxShape(blk.box)[i] + 2 * var.max_stencil_width[i]

\* the position, in the shape of an array of the variable, of axis i of the
\* block: after the axis of the components when that one comes first
AxisOf(blk, var, i) ==
    IF var.depth > 1 /\ ~blk.stores_vectors_contiguously THEN i + 1 ELSE i

\* the shape has the axes of a block of d dimensions and, for a
\* vector-valued variable, the axis of its components: last when the block
\* stores vectors contiguously, first otherwise
HasComponentAxis(blk, var, shape, d) ==
    IF var.depth > 1
    THEN /\ Len(shape) = d + 1
         /\ shape[IF blk.stores_vectors_contiguously THEN d + 1 ELSE 1]
                = var.depth
    ELSE Len(shape) = d

C27_DataShape ==
    (/\ last.op = "add_variable"
     /\ last.outcome = OK
     /\ last.variable.location \in {"CELL", "NODE"}
     /\ last.variable.depth > 1)
        => /\ DataShape(last.variable, last.result).err = OK
           /\ DataShape(last.variable, last.result).shape
                  = last.result.data[1].shapes[1]

\* ------------------------------------------------------------------------
\* Properties of add_level and remove_level

\* C28: an add_level call that raises, whatever the reason, leaves
\* num_levels and mesh.levels as they were before the call.
C28_AddLevelAtomic ==
    [][(last'.op = "add_level" /\ last'.outcome # OK)
           => /\ Len(levels') = Len(levels)
              /\ UNCHANGED levels]_vars

\* C29: add_level and remove_level change only the list of levels: the
\* variables of the mesh, its domain, its bounding box and its geometry are
\* as before the call, the bounding box is that of the domain boxes, which
\* are the boxes of level 0, and every level that is in the mesh before and
\* after the call has the variables, the blocks and the data arrays it had.
C29_Frame ==
    [][last'.op \in {"add_level", "remove_level"}
           => /\ UNCHANGED <<heap, variables, domain, bounding_box, geometry>>
              /\ bounding_box' = ComputeBoundingBox(domain')
              /\ domain' = [i \in 1..Len(levels'[1].blocks) |->
                               levels'[1].blocks[i].box]
              /\ \A l \in 1..Len(levels) :
                     l <= Len(levels') => levels'[l] = levels[l]]_vars

\* remove_level has removed a level from a mesh of two domain boxes whose
\* level 0 holds the data of a variable
C29_Witness ==
    /\ last.op = "remove_level"
    /\ last.outcome = OK
    /\ Len(domain) = 2
    /\ variables # <<>>
    /\ \E v \in Range(variables) : RegisteredOn(levels[1], v)
    /\ last.result.blocks # <<>>

\* C30: in every state in which the mesh is single-block, mesh.data(v)
\* returns an array for every variable v of mesh.variables, whichever
\* levels the variable was created on.
C30_SingleBlockData ==
    is_single_block
        => \A i \in 1..Len(variables) :
               /\ MeshData(variables[i]).err = OK
               /\ MeshData(variables[i]).array # NoArray

\* ------------------------------------------------------------------------
\* Properties of the domain

\* C23: mesh.domain is the tuple of the boxes the Mesh was built from, in
\* the given order: a one-element tuple for a Mesh built from a single Box.
C23_DomainTuple ==
    /\ domain \in DomainArgs
    /\ MeshDomain.is_tuple
    /\ MeshDomain.value = domain

\* ------------------------------------------------------------------------
\* Properties of the accessors

\* C12: block.data(variable) for a MeshVariable that was never added to the
\* block fails with an error of a kind other than the ValueError
\* (InvalidArgument) that data() raises for an argument that is not a
\* MeshVariable; for a variable with an entry it returns the array of the
\* entry.
C12_DataNotFound ==
    \A l \in 1..num_levels : \A b \in 1..Len(levels[l].blocks) :
        \A v \in Range(variables) :
            IF v \in DOMAIN levels[l].blocks[b].data
            THEN BlockData(levels[l].blocks[b], v) =
                     [err |-> OK, array |-> levels[l].blocks[b].data[v]]
            ELSE /\ BlockData(levels[l].blocks[b], v).err # OK
                 /\ BlockData(levels[l].blocks[b], v).err # ValueError

\* C13 as stated: mesh.data(variable) on a mesh that is not single-block
\* (more than one level, or more than one domain box) raises ValueError
\* (InvalidArgument) and returns no array.
C13_DataInvalidArgument ==
    ~is_single_block
        => \A v \in Range(variables) :
               MeshData(v) = [err |-> ValueError, array |-> NoArray]

\* C13 as amended: mesh.data(variable) on a mesh that is not single-block
\* (more than one level, or more than one domain box) raises RuntimeError
\* (InvalidState) and returns no array.
C13_DataInvalidState ==
    (num_levels > 1 \/ Len(domain) > 1)
        => \A v \in Range(variables) :
               MeshData(v) = [err |-> RuntimeError, array |-> NoArray]

\* a mesh of one domain box and two levels holds a variable with an array
\* on the block of the coarsest level
C13_Witness ==
    /\ num_levels = 2
    /\ Len(domain) = 1
    /\ \E v \in Range(variables) :
           /\ v \in DOMAIN levels[1].blocks[1].data
           /\ MeshData(v).err = RuntimeError

\* C14: is_single_level is num_levels = 1 and is_single_block is num_levels
\* = 1 with a domain of one box; mesh.blocks and mesh.num_blocks return the
\* blocks of level 0 and their number when is_single_level holds and
\* mesh.block returns block 0 of level 0 when is_single_block holds, and
\* they raise RuntimeError (InvalidState) otherwise; so an add_level that
\* appends a level makes them unavailable, and the remove_level that
\* leaves one level makes them available again.
C14_Accessors ==
    /\ [](/\ is_single_level <=> num_levels = 1
          /\ is_single_block <=> (num_levels = 1 /\ Len(domain) = 1)
          /\ blocks = IF is_single_level
                      THEN [err |-> OK, value |-> levels[1].blocks]
                      ELSE [err |-> RuntimeError, value |-> <<>>]
          /\ num_blocks = IF is_single_level
                          THEN [err |-> OK, value |-> Len(levels[1].blocks)]
                          ELSE [err |-> RuntimeError, value |-> <<>>]
          /\ block = IF is_single_block
                     THEN [err |-> OK, value |-> levels[1].blocks[1]]
                     ELSE [err |-> RuntimeError, value |-> <<>>])
    /\ [][/\ (last'.op = "add_level" /\ num_levels' = num_levels + 1)
                 => /\ blocks'.err = RuntimeError
                    /\ num_blocks'.err = RuntimeError
                    /\ block'.err = RuntimeError
          /\ (last'.op = "remove_level" /\ last'.outcome = OK
                  /\ num_levels = 2)
                 => /\ blocks'.err = OK
                    /\ num_blocks'.err = OK
                    /\ block'.err = IF Len(domain) = 1 THEN OK
                                                       ELSE RuntimeError]_vars

\* remove_level has left one level on a mesh with a domain of two boxes:
\* blocks and num_blocks are available again, block is not
C14_Witness ==
    /\ last.op = "remove_level"
    /\ last.outcome = OK
    /\ num_levels = 1
    /\ Len(domain) = 2
    /\ blocks.err = OK
    /\ num_blocks = [err |-> OK, value |-> 2]
    /\ block.err = RuntimeError

\* C15: without a block, variable.data(), variable.box() and
\* variable.geometry() raise ValueError (InvalidArgument) unless the mesh is
\* single-block, where box() without halo and geometry() return the domain
\* box and the geometry of the mesh; with a block they return the array
\* that the block holds for the variable, the box of the block (widened by
\* max_stencil_width with halo) and the geometry of the block, whatever the
\* number of levels.
C15_BlockArgument ==
    \A v \in Range(variables) :
        /\ ~is_single_block
               => /\ VariableData(v) = [err |-> ValueError, array |-> NoArray]
                  /\ \A with_halo \in BOOLEAN :
                         VariableBox(v, with_halo) =
                             [err |-> ValueError, box |-> NoBox]
                  /\ VariableGeometry(v).err = ValueError
        /\ is_single_block
               => /\ VariableBox(v, FALSE) = [err |-> OK, box |-> domain[1]]
                  /\ VariableGeometry(v) =
                         [err |-> OK, geometry |-> levels[1].blocks[1].geometry]
                  /\ VariableData(v).err \in {OK, ValueError}
                  /\ VariableData(v).err = OK
                         => VariableData(v).array =
                                levels[1].blocks[1].data[v]
        /\ \A l \in 1..num_levels : \A b \in 1..Len(levels[l].blocks) :
               /\ VariableDataOn(v, levels[l].blocks[b]) =
                      IF v \in DOMAIN levels[l].blocks[b].data
                      THEN [err |-> OK,
                            array |-> levels[l].blocks[b].data[v]]
                      ELSE [err |-> ValueError, array |-> NoArray]
               /\ VariableBoxOn(v, levels[l].blocks[b], FALSE) =
                      [err |-> OK, box |-> levels[l].blocks[b].box]
               /\ VariableBoxOn(v, levels[l].blocks[b], TRUE).err = OK
                      => \A i \in 1..Len(levels[l].blocks[b].box.lower) :
                             /\ VariableBoxOn(v, levels[l].blocks[b],
                                              TRUE).box.lower[i] =
                                    levels[l].blocks[b].box.lower[i]
                                        - At(heap[v].max_stencil_width, i)
                             /\ VariableBoxOn(v, levels[l].blocks[b],
                                              TRUE).box.upper[i] =
                                    levels[l].blocks[b].box.upper[i]
                                        + At(heap[v].max_stencil_width, i)
               /\ VariableGeometryOn(v, levels[l].blocks[b]) =
                      [err |-> OK, geometry |-> levels[l].blocks[b].geometry]

\* on a mesh of two levels, data() of a variable fails without a block and
\* returns an array with a block of the finest level
C15_Witness ==
    /\ num_levels = 2
    /\ \E v \in Range(variables) : \E b \in 1..Len(levels[2].blocks) :
           /\ VariableData(v).err = ValueError
           /\ VariableDataOn(v, levels[2].blocks[b]).err = OK
           /\ VariableBoxOn(v, levels[2].blocks[b], TRUE).err = OK

\* ------------------------------------------------------------------------
\* Properties of create_variable

\* the level at position i of mesh.levels is among the levels that the
\* level_numbers argument names
Names(level_numbers, i) ==
    \/ ~level_numbers.given
    \/ \E x \in Range(level_numbers.values) : x.num = (i - 1) * x.den

\* C6: every variable is registered on every block of every level it was
\* added to: it is in the variables of each block of the level, and each
\* block holds a data entry for it.
C6_Registered ==
    \A l \in 1..num_levels :
        \A v \in Range(levels[l].variables) :
            /\ v \in Range(variables)
            /\ RegisteredOn(levels[l], v)

\* C7: a successful create_variable appends exactly one new MeshVariable,
\* bound to the mesh, to mesh.variables, registers it on every block of the
\* levels that level_numbers names (all levels when it is omitted) and on no
\* other level.
C7_CreateVariable ==
    [][\A args \in VariableArgs, level_numbers \in LevelNumberArgs :
           (/\ CreateVariable(args[1], args[2], args[3], args[4],
                              level_numbers)
            /\ last'.outcome = OK)
               => /\ last'.variable \notin DOMAIN heap
                  /\ DOMAIN heap' = DOMAIN heap \cup {last'.variable}
                  /\ heap'[last'.variable].mesh = "mesh"
                  /\ \A w \in DOMAIN heap : heap'[w] = heap[w]
                  /\ variables' = Append(variables, last'.variable)
                  /\ num_levels' = num_levels
                  /\ \A i \in 1..num_levels :
                         IF Names(level_numbers, i)
                         THEN RegisteredOn(levels'[i], last'.variable)
                         ELSE /\ AbsentFrom(levels'[i], last'.variable)
                              /\ levels'[i] = levels[i]]_vars

\* create_variable has succeeded on a mesh of two levels and has left one of
\* them without the variable
C7_Witness ==
    /\ last.op = "create_variable"
    /\ last.outcome = OK
    /\ num_levels = 2
    /\ \E i, j \in 1..num_levels :
           /\ RegisteredOn(levels[i], last.variable)
           /\ AbsentFrom(levels[j], last.variable)

\* the level_numbers argument is empty or contains a value that is not
\* integral, is negative or is not below the number of levels
BadLevelNumbers(level_numbers) ==
    /\ level_numbers.given
    /\ \/ level_numbers.values = <<>>
       \/ \E x \in Range(level_numbers.values) :
              \/ x.num % x.den # 0
              \/ x.num < 0
              \/ x.num >= num_levels * x.den

\* C8: create_variable with a level_numbers argument that is empty or
\* contains a non-integral value, a negative value or a value >= num_levels
\* raises ValueError (InvalidArgument), and no variable is added to the mesh,
\* to a level or to a block.
C8_BadLevelNumbers ==
    [][\A args \in VariableArgs, level_numbers \in LevelNumberArgs :
           (/\ CreateVariable(args[1], args[2], args[3], args[4],
                              level_numbers)
            /\ BadLevelNumbers(level_numbers))
               => /\ last'.op = "create_variable"
                  /\ last'.outcome = ValueError
                  /\ last'.variable = 0
                  /\ UNCHANGED <<heap, variables, levels>>]_vars

\* create_variable has rejected a level number for the number of levels at
\* the time of the call, on a mesh of two levels that holds a variable
C8_Witness ==
    /\ last.op = "create_variable"
    /\ last.outcome = ValueError
    /\ last.message =
           "'level_numbers' should only contain values less than number of levels in the Mesh"
    /\ num_levels = 2
    /\ variables # <<>>

\* the depth is not positive, or max_stencil_width has a negative component or
\* is an array of a length other than the num_dimensions of the mesh
BadVariableArgs(max_stencil_width, depth) ==
    \/ depth < 1
    \/ \E x \in Range(max_stencil_width.values) : x < 0
    \/ /\ max_stencil_width.is_array
       /\ Len(max_stencil_width.values) # num_dimensions

\* C17: create_variable with a depth that is not positive, or with a
\* max_stencil_width that has a negative component or is an array of a
\* length other than num_dimensions, raises ValueError (InvalidArgument) from
\* the MeshVariable constructor: no MeshVariable comes into being.
C17_ConstructorRejects ==
    [][\A args \in VariableArgs, level_numbers \in LevelNumberArgs :
           (/\ CreateVariable(args[1], args[2], args[3], args[4],
                              level_numbers)
            /\ ~BadLevelNumbers(level_numbers)
            /\ BadVariableArgs(args[2], args[3]))
               => /\ last'.outcome = ValueError
                  /\ last'.variable = 0
                  /\ UNCHANGED <<heap, variables>>]_vars

\* C18: a create_variable call that raises leaves mesh.variables, the
\* variables of every level and the variables and data of every block as
\* they were before the call.
C18_FailureAtomic ==
    [][(last'.op = "create_variable" /\ last'.outcome # OK)
           => UNCHANGED <<heap, variables, levels>>]_vars

\* C9: a create_variable call whose arguments are those of an earlier call
\* produces a distinct variable; both are in mesh.variables, and every block
\* that the call registers the variable on holds an entry of its own for it,
\* next to the entry of the earlier variable.
C9_TwoVariables ==
    [][\A args \in VariableArgs, level_numbers \in LevelNumberArgs :
           (/\ CreateVariable(args[1], args[2], args[3], args[4],
                              level_numbers)
            /\ last'.outcome = OK)
               => \A w \in Range(variables) :
                      heap[w] = heap'[last'.variable]
                          => /\ w # last'.variable
                             /\ w \in Range(variables')
                             /\ last'.variable \in Range(variables')
                             /\ \A i \in 1..num_levels :
                                    Names(level_numbers, i)
                                        => \A b \in 1..Len(levels[i].blocks) :
                                               LET before == levels[i].blocks[b]
                                                   after == levels'[i].blocks[b]
                                               IN  /\ last'.variable \in Range(after.variables)
                                                   /\ last'.variable \in DOMAIN after.data
                                                   /\ DOMAIN after.data =
                                                          DOMAIN before.data
                                                              \cup {last'.variable}
                                                   /\ last'.variable \notin DOMAIN before.data
                                                   /\ \A u \in DOMAIN before.data :
                                                          after.data[u] = before.data[u]]_vars

\* a second variable with the fields of the first has been created, and a
\* block holds an entry for each of them
C9_Witness ==
    /\ last.op = "create_variable"
    /\ last.outcome = OK
    /\ \E w \in Range(variables) :
           /\ w # last.variable
           /\ heap[w] = heap[last.variable]
           /\ \E l \in 1..num_levels : \E b \in 1..Len(levels[l].blocks) :
                  {w, last.variable} \subseteq DOMAIN levels[l].blocks[b].data

\* C10 as stated: two MeshVariables compare equal if and only if their
\* location, max_stencil_width, depth, precision and mesh match.
C10_EqualByFields ==
    \A v, w \in DOMAIN heap :
        VariableEq(heap, v, w) <=> heap[v] = heap[w]

\* C10 as amended: two MeshVariables compare equal if and only if they are
\* one object, so that the variables that separate create_variable calls
\* appended to mesh.variables compare unequal, whatever their fields.
C10_EqualByIdentity ==
    \A i, j \in 1..Len(variables) :
        VariableEq(heap, variables[i], variables[j]) <=> i = j

\* two create_variable calls have produced variables with the same fields
C10_Witness ==
    \E i, j \in 1..Len(variables) :
        /\ i # j
        /\ heap[variables[i]] = heap[variables[j]]
        /\ ~VariableEq(heap, variables[i], variables[j])

====
